---- MODULE Spec2Model ----
(***************************************************************************)
(* Model of the node-windows-audio-manager native addon: the four public   *)
(* operations of native/src/addon.cpp (listDevices, setDefaultDevice,      *)
(* setDefaultPlaybackMute, muteDeviceById), the services they call         *)
(* (AudioManager, DeviceUtils, COMInitializer) and the part of the Windows *)
(* audio platform those calls read and write: the active render endpoints, *)
(* the three per-role defaults and the per-endpoint mute flags.            *)
(*                                                                         *)
(* Strings are sequences of numbers: a wide string is a sequence of UTF-16 *)
(* code units, a JavaScript/UTF-8 string is a sequence of bytes.           *)
(***************************************************************************)
EXTENDS Integers, Sequences, FiniteSets, TLC

VARIABLES active, defaults, muted, last, prev, guards, records, threads

vars == <<active, defaults, muted, last, prev, guards, records, threads>>

(***************************************************************************)
(* Bounds of the model.                                                    *)
(***************************************************************************)
\* number of render endpoints the platform knows
MaxDevices == 2
\* arguments a caller may pass beyond the ones an operation reads
MaxExtraArgs == 1

Devices == 1..MaxDevices
NoDevice == 0

(***************************************************************************)
(* The platform's endpoints.  Endpoint ids are wide strings that share a   *)
(* prefix, as endpoint ids do; the id of endpoint 2 carries a non-ASCII    *)
(* code unit (U+00E9).  Friendly names are not unique.                     *)
(***************************************************************************)
DevId(d) == IF d = 1 THEN <<97>> ELSE IF d = 2 THEN <<97, 233>> ELSE <<97, 96 + d>>

DevName(d) == IF d % 2 = 0 THEN <<83, 233>> ELSE <<83>>

Roles == <<"eConsole", "eMultimedia", "eCommunications">>

RoleSet == {Roles[i] : i \in 1..Len(Roles)}

(***************************************************************************)
(* String conversions of addon.cpp.                                        *)
(***************************************************************************)
\* UTF-8 bytes of one UTF-16 code unit outside the surrogate range
Utf8OfUnit(u) ==
    IF u < 128 THEN <<u>>
    ELSE IF u < 2048 THEN <<192 + (u \div 64), 128 + (u % 64)>>
    ELSE <<224 + (u \div 4096), 128 + ((u \div 64) % 64), 128 + (u % 64)>>

\* a lossy conversion: code units outside ASCII are dropped
RECURSIVE WStringToUtf8_DropsNonAscii(_)
WStringToUtf8_DropsNonAscii(wstr) ==
    IF wstr = <<>> THEN <<>>
    ELSE (IF Head(wstr) < 128 THEN <<Head(wstr)>> ELSE <<>>)
         \o WStringToUtf8_DropsNonAscii(Tail(wstr))

RECURSIVE WStringToUtf8(_)
WStringToUtf8(wstr) ==
    IF wstr = <<>> THEN <<>>
    ELSE Utf8OfUnit(Head(wstr)) \o WStringToUtf8(Tail(wstr))

\* std::wstring(s.begin(), s.end()): each char is converted to wchar_t on its
\* own; char is signed, so a byte >= 0x80 sign-extends to 0xFF80..0xFFFF
WidenBytes(s) == [i \in DOMAIN s |-> IF s[i] < 128 THEN s[i] ELSE (s[i] + 65280) % 65536]

(***************************************************************************)
(* What a caller can pass.  A JavaScript string argument is given by its   *)
(* UTF-8 bytes (Napi::String::Utf8Value).                                  *)
(***************************************************************************)
UnknownId == <<99>>

InputIds == {WStringToUtf8(DevId(d)) : d \in Devices} \cup {<<>>, UnknownId}

\* the values a caller can pass: strings, booleans and a value of another type
Values ==
    {[t |-> "string", s |-> id, b |-> FALSE] : id \in InputIds}
    \cup {[t |-> "boolean", s |-> <<>>, b |-> x] : x \in BOOLEAN}
    \cup {[t |-> "number", s |-> <<>>, b |-> FALSE]}

RECURSIVE Tuples(_, _)
Tuples(S, n) ==
    IF n = 0 THEN {<<>>} ELSE {Append(t, x) : t \in Tuples(S, n - 1), x \in S}

Min(a, b) == IF a < b THEN a ELSE b

(***************************************************************************)
(* The platform as the calls of the source see it.                         *)
(***************************************************************************)
\* IMMDeviceCollection of EnumAudioEndpoints(eRender, DEVICE_STATE_ACTIVE):
\* the active endpoints in the platform's order
Collection == SelectSeq([i \in Devices |-> i], LAMBDA d : d \in active)

\* the endpoint a wide id names, NoDevice if it names none
DeviceWithId(id) ==
    IF \E d \in Devices : DevId(d) = id
    THEN CHOOSE d \in Devices : DevId(d) = id
    ELSE NoDevice

\* how the reads of one endpoint inside the enumeration loop can end
DevOutcomes == {"ok", "item", "id", "store", "name"}

\* the platform faults one enumeration can meet: a failing call before the
\* loop, or an outcome for each endpoint of the collection
EnumFaults ==
    {[stage |-> s, dev |-> [d \in active |-> "ok"]] : s \in {"create", "enum", "count"}}
    \cup {[stage |-> "none", dev |-> o] : o \in [active -> DevOutcomes]}

\* the faults of resolving the console default and reading its id
DefaultFaults == {"create", "getDefault", "getId", "none"}

\* the faults of creating the policy object and of the three role assignments
PolicyFaults ==
    {[policy |-> FALSE, hr |-> [r \in RoleSet |-> FALSE]]}
    \cup {[policy |-> TRUE, hr |-> h] : h \in [RoleSet -> BOOLEAN]}

\* the faults of a mute: enumerator creation, endpoint resolution (default
\* or by id), volume-control activation, the mute set
MuteFaults == {"create", "resolve", "activate", "setMute", "none"}

(***************************************************************************)
(* AudioManager (AudioSwitcher.cpp).                                       *)
(***************************************************************************)
\* the two strings are stored in each other's field
AudioDevice_SwapsFields(d) == [id |-> DevName(d), name |-> DevId(d), device |-> d]

AudioDevice(d) == [id |-> DevId(d), name |-> DevName(d), device |-> d]

Threw(msg) == [threw |-> TRUE, what |-> msg, devices |-> <<>>]

\* the loop stops at the first endpoint whose reads fail
listOutputDevices_StopsAtFailure(f) ==
    IF f.stage = "create" THEN Threw("[x] Failed to create device enumerator.")
    ELSE IF f.stage = "enum" THEN Threw("[x] Failed to enumerate audio endpoints.")
    ELSE IF f.stage = "count" THEN Threw("[x] Failed to retrieve device count.")
    ELSE IF Len(Collection) = 0 THEN Threw("[x] No output devices found.")
    ELSE [threw |-> FALSE, what |-> "",
          devices |-> LET n == IF \A i \in DOMAIN Collection : f.dev[Collection[i]] = "ok"
                               THEN Len(Collection)
                               ELSE (CHOOSE i \in DOMAIN Collection :
                                        /\ f.dev[Collection[i]] # "ok"
                                        /\ \A j \in 1..(i - 1) : f.dev[Collection[j]] = "ok")
                                    - 1
                      IN  [i \in 1..n |-> AudioDevice(Collection[i])]]

\* the zero-count check left out: an empty collection yields an empty list
listOutputDevices_EmptyListOnZero(f) ==
    IF f.stage = "create" THEN Threw("[x] Failed to create device enumerator.")
    ELSE IF f.stage = "enum" THEN Threw("[x] Failed to enumerate audio endpoints.")
    ELSE IF f.stage = "count" THEN Threw("[x] Failed to retrieve device count.")
    ELSE [threw |-> FALSE, what |-> "",
          devices |-> LET kept == SelectSeq(Collection, LAMBDA d : f.dev[d] = "ok")
                      IN  [i \in DOMAIN kept |-> AudioDevice(kept[i])]]

listOutputDevices(f) ==
    IF f.stage = "create" THEN Threw("[x] Failed to create device enumerator.")
    ELSE IF f.stage = "enum" THEN Threw("[x] Failed to enumerate audio endpoints.")
    ELSE IF f.stage = "count" THEN Threw("[x] Failed to retrieve device count.")
    ELSE IF Len(Collection) = 0 THEN Threw("[x] No output devices found.")
    ELSE [threw |-> FALSE, what |-> "",
          devices |-> LET kept == SelectSeq(Collection, LAMBDA d : f.dev[d] = "ok")
                      IN  [i \in DOMAIN kept |-> AudioDevice(kept[i])]]

\* IPolicyConfig::SetDefaultEndpoint(deviceId, role): the role's default
\* after the call, given the call's HRESULT
SetDefaultEndpoint(defs, deviceId, role, ok) ==
    IF ok THEN [defs EXCEPT ![role] = DeviceWithId(deviceId)] ELSE defs

RECURSIVE AssignRoles(_, _, _, _)
AssignRoles(defs, deviceId, hr, i) ==
    IF i > Len(Roles) THEN defs
    ELSE AssignRoles(SetDefaultEndpoint(defs, deviceId, Roles[i], hr[Roles[i]]),
                     deviceId, hr, i + 1)

\* the console role is never assigned, and its result never read
setDefaultOutputDevice_SkipsConsole(deviceId, f) ==
    IF ~f.policy
    THEN [threw |-> FALSE, result |-> FALSE, created |-> FALSE, calls |-> <<>>,
          hrs |-> <<>>, defaults |-> defaults]
    ELSE [threw |-> FALSE,
          result |-> f.hr["eMultimedia"] /\ f.hr["eCommunications"],
          created |-> TRUE, calls |-> Tail(Roles),
          hrs |-> <<f.hr["eMultimedia"], f.hr["eCommunications"]>>,
          defaults |-> AssignRoles(defaults, deviceId, f.hr, 2)]

\* the result of the communications assignment is left out of the result
setDefaultOutputDevice_IgnoresLastResult(deviceId, f) ==
    IF ~f.policy
    THEN [threw |-> FALSE, result |-> FALSE, created |-> FALSE, calls |-> <<>>,
          hrs |-> <<>>, defaults |-> defaults]
    ELSE [threw |-> FALSE, result |-> f.hr["eConsole"] /\ f.hr["eMultimedia"],
          created |-> TRUE,
          calls |-> Roles, hrs |-> [i \in DOMAIN Roles |-> f.hr[Roles[i]]],
          defaults |-> AssignRoles(defaults, deviceId, f.hr, 1)]

\* the assignments stop at the first one that fails
setDefaultOutputDevice_StopsAtFailure(deviceId, f) ==
    IF ~f.policy
    THEN [threw |-> FALSE, result |-> FALSE, created |-> FALSE, calls |-> <<>>,
          hrs |-> <<>>, defaults |-> defaults]
    ELSE LET n == IF \A i \in DOMAIN Roles : f.hr[Roles[i]] THEN Len(Roles)
                  ELSE CHOOSE i \in DOMAIN Roles :
                           /\ ~f.hr[Roles[i]]
                           /\ \A j \in 1..(i - 1) : f.hr[Roles[j]]
             issued == SubSeq(Roles, 1, n)
         IN  [threw |-> FALSE, result |-> \A r \in RoleSet : f.hr[r], created |-> TRUE,
              calls |-> issued, hrs |-> [i \in DOMAIN issued |-> f.hr[Roles[i]]],
              defaults |-> [r \in RoleSet |->
                               IF \E i \in DOMAIN issued : issued[i] = r /\ f.hr[r]
                               THEN DeviceWithId(deviceId) ELSE defaults[r]]]

\* an endpoint that already holds the console role is reported as a failure
setDefaultOutputDevice_FailsWhenAlreadyDefault(deviceId, f) ==
    IF ~f.policy
    THEN [threw |-> FALSE, result |-> FALSE, created |-> FALSE, calls |-> <<>>,
          hrs |-> <<>>, defaults |-> defaults]
    ELSE [threw |-> FALSE,
          result |-> /\ \A r \in RoleSet : f.hr[r]
                     /\ defaults["eConsole"] # DeviceWithId(deviceId),
          created |-> TRUE,
          calls |-> Roles, hrs |-> [i \in DOMAIN Roles |-> f.hr[Roles[i]]],
          defaults |-> AssignRoles(defaults, deviceId, f.hr, 1)]

\* the function's own handler left out: the runtime_error reaches the caller
setDefaultOutputDevice_Throws(deviceId, f) ==
    IF ~f.policy
    THEN [threw |-> TRUE, result |-> FALSE, created |-> FALSE, calls |-> <<>>,
          hrs |-> <<>>, defaults |-> defaults]
    ELSE [threw |-> FALSE, result |-> \A r \in RoleSet : f.hr[r], created |-> TRUE,
          calls |-> Roles, hrs |-> [i \in DOMAIN Roles |-> f.hr[Roles[i]]],
          defaults |-> AssignRoles(defaults, deviceId, f.hr, 1)]

\* the result, the role assignments issued and the defaults afterwards
setDefaultOutputDevice(deviceId, f) ==
    IF ~f.policy
    \* the runtime_error thrown here is caught by the function's own handler
    THEN [threw |-> FALSE, result |-> FALSE, created |-> FALSE, calls |-> <<>>,
          hrs |-> <<>>, defaults |-> defaults]
    ELSE [threw |-> FALSE, result |-> \A r \in RoleSet : f.hr[r], created |-> TRUE,
          calls |-> Roles, hrs |-> [i \in DOMAIN Roles |-> f.hr[Roles[i]]],
          defaults |-> AssignRoles(defaults, deviceId, f.hr, 1)]

(***************************************************************************)
(* DeviceUtils.cpp.                                                        *)
(***************************************************************************)
\* the default is asked for the multimedia role
GetDefaultAudioPlaybackDevice_Multimedia(fault) ==
    IF fault \in {"create", "getDefault", "resolve"} THEN NoDevice
    ELSE defaults["eMultimedia"]

\* the HRESULTs are not tested: a stale endpoint is returned on failure
GetDefaultAudioPlaybackDevice_IgnoresFailure(fault) == defaults["eConsole"]

\* the console-role default endpoint, NoDevice (nullptr) on failure
GetDefaultAudioPlaybackDevice(fault) ==
    IF fault \in {"create", "getDefault", "resolve"} THEN NoDevice
    ELSE defaults["eConsole"]

\* the mute is applied to every endpoint
MuteDevice_MutesAll(device, mute, fault) ==
    IF device = NoDevice THEN [result |-> FALSE, muted |-> muted]
    ELSE IF fault = "activate" THEN [result |-> FALSE, muted |-> muted]
    ELSE IF fault = "setMute" THEN [result |-> FALSE, muted |-> muted]
    ELSE [result |-> TRUE, muted |-> [d \in DOMAIN muted |-> mute]]

\* Activate(IAudioEndpointVolume) then SetMute on a resolved endpoint
MuteDevice(device, mute, fault) ==
    IF device = NoDevice THEN [result |-> FALSE, muted |-> muted]
    ELSE IF fault = "activate" THEN [result |-> FALSE, muted |-> muted]
    ELSE IF fault = "setMute" THEN [result |-> FALSE, muted |-> muted]
    ELSE [result |-> TRUE, muted |-> [muted EXCEPT ![device] = mute]]

\* the HRESULT of SetMute is not part of the result
SetDefaultPlaybackDeviceMute_IgnoresSetMuteResult(mute, fault) ==
    LET device == GetDefaultAudioPlaybackDevice(fault)
    IN  IF device = NoDevice THEN [result |-> FALSE, muted |-> muted, target |-> NoDevice]
        ELSE IF fault = "activate"
             THEN [result |-> FALSE, muted |-> muted, target |-> device]
        ELSE IF fault = "setMute"
             THEN [result |-> TRUE, muted |-> muted, target |-> device]
        ELSE [result |-> TRUE, muted |-> [muted EXCEPT ![device] = mute],
              target |-> device]

\* the flag is not passed on: the endpoint is always muted
SetDefaultPlaybackDeviceMute_AlwaysMutes(mute, fault) ==
    LET device == GetDefaultAudioPlaybackDevice(fault)
    IN  IF device = NoDevice THEN [result |-> FALSE, muted |-> muted, target |-> NoDevice]
        ELSE IF fault = "activate"
             THEN [result |-> FALSE, muted |-> muted, target |-> device]
        ELSE IF fault = "setMute"
             THEN [result |-> FALSE, muted |-> muted, target |-> device]
        ELSE [result |-> TRUE, muted |-> [muted EXCEPT ![device] = TRUE],
              target |-> device]

SetDefaultPlaybackDeviceMute(mute, fault) ==
    LET device == GetDefaultAudioPlaybackDevice(fault)
    IN  IF device = NoDevice THEN [result |-> FALSE, muted |-> muted, target |-> NoDevice]
        ELSE IF fault = "activate"
             THEN [result |-> FALSE, muted |-> muted, target |-> device]
        ELSE IF fault = "setMute"
             THEN [result |-> FALSE, muted |-> muted, target |-> device]
        ELSE [result |-> TRUE, muted |-> [muted EXCEPT ![device] = mute],
              target |-> device]

(***************************************************************************)
(* The binding layer (addon.cpp): what a call is given and what it yields. *)
(***************************************************************************)
\* Napi::CallbackInfo as a handler that reads its first `arity` arguments sees
\* it: info.Length() and the values of the arguments it reads
Infos(arity) ==
    UNION {{[argc |-> n, args |-> a] : a \in Tuples(Values, Min(n, arity))} :
              n \in 0..(arity + MaxExtraArgs)}

\* info[i].IsString(), info[i].IsBoolean(); info[i] is undefined past the end
IsString(info, i) == i + 1 <= Len(info.args) /\ info.args[i + 1].t = "string"

IsBoolean(info, i) == i + 1 <= Len(info.args) /\ info.args[i + 1].t = "boolean"

\* the record of one call; outcome is "list" or "bool" for a returned value,
\* "TypeError" or "Error" for a raised JavaScript exception
NoCall ==
    [op |-> "none", info |-> [argc |-> 0, args |-> <<>>], usage |-> FALSE,
     id |-> <<>>, mute |-> FALSE,
     outcome |-> "none", value |-> FALSE, list |-> <<>>, what |-> "",
     initOk |-> FALSE, enumOk |-> FALSE, found |-> FALSE, policy |-> FALSE,
     calls |-> <<>>, hrs |-> <<>>, target |-> NoDevice, preMuted |-> FALSE,
     defaultId |-> <<>>, enumerated |-> <<>>, preDefaults |-> <<>>,
     preMuteFlags |-> <<>>, defaultFault |-> "none",
     enumFault |-> [stage |-> "none", dev |-> <<>>], muteFault |-> "none",
     apis |-> {}, uninit |-> 0, notFunction |-> FALSE, trace |-> <<>>]

\* a call in progress; the record keeps the role defaults and the mute flags
\* the call started from, and the faults its platform calls met
Call(op, info) ==
    [NoCall EXCEPT !.op = op, !.info = info, !.preDefaults = defaults,
                   !.preMuteFlags = muted]

\* the wide ids of the records an enumeration built
Enumerated(res) == [i \in DOMAIN res.devices |-> res.devices[i].id]

\* the validation raises a plain Error
UsageError_AsError(op, info, msg) ==
    [Call(op, info) EXCEPT !.usage = TRUE, !.outcome = "Error", !.what = msg]

\* Napi::TypeError raised by the argument validation, before any platform call
UsageError(op, info, msg) ==
    [Call(op, info) EXCEPT !.usage = TRUE, !.outcome = "TypeError", !.what = msg]

\* the HRESULT of CoInitializeEx is not tested: the constructor never throws
COMInitializer_NoThrow(coinit) ==
    [threw |-> FALSE, what |-> "", initialized |-> coinit]

\* COMInitializer::COMInitializer: throws when CoInitializeEx fails
COMInitializer(coinit) ==
    [threw |-> ~coinit, what |-> IF coinit THEN "" ELSE "Failed to initialize COM.",
     initialized |-> coinit]

\* COMInitializer::~COMInitializer at scope exit: the number of CoUninitialize
\* calls it issues
COMInitializerDtor(com) == IF com.initialized THEN 1 ELSE 0

\* a call past the construction of its COMInitializer: the platform services
\* it has called so far, and the guard's release at scope exit
Guarded(c, com, services) ==
    [c EXCEPT !.apis = services, !.uninit = COMInitializerDtor(com)]

NoEnumFault == [stage |-> "none", dev |-> [d \in active |-> "ok"]]

NoPolicyFault == [policy |-> TRUE, hr |-> [r \in RoleSet |-> TRUE]]

(***************************************************************************)
(* listDevices()                                                           *)
(***************************************************************************)
ListScenarios ==
    {[coinit |-> FALSE, df |-> "none", ef |-> NoEnumFault]}
    \cup {[coinit |-> TRUE, df |-> d, ef |-> e] : d \in DefaultFaults, e \in EnumFaults}

ListDevicesResult(info, sc) ==
    LET com == COMInitializer(sc.coinit)
        c == [Call("listDevices", info) EXCEPT !.initOk = sc.coinit,
                                                !.defaultFault = sc.df,
                                                !.enumFault = sc.ef]
    IN  IF com.threw
        THEN [c EXCEPT !.outcome = "TypeError", !.what = com.what]
        ELSE
        LET g == Guarded(c, com, {"default", "enumerate"})
            defaultDevice == GetDefaultAudioPlaybackDevice(sc.df)
            defaultIdW == IF defaultDevice # NoDevice /\ sc.df # "getId"
                          THEN DevId(defaultDevice) ELSE <<>>
            defaultIdUtf8 == WStringToUtf8(defaultIdW)
            res == listOutputDevices(sc.ef)
        IN  IF res.threw
            THEN [g EXCEPT !.outcome = "TypeError", !.what = res.what,
                           !.defaultId = defaultIdUtf8]
            ELSE [g EXCEPT !.enumOk = TRUE, !.outcome = "list",
                           !.defaultId = defaultIdUtf8,
                           !.enumerated = Enumerated(res),
                           !.list = [i \in DOMAIN res.devices |->
                               LET name == WStringToUtf8(res.devices[i].name)
                                   id == WStringToUtf8(res.devices[i].id)
                               IN  [name |-> name, id |-> id,
                                    isDefault |-> (id = defaultIdUtf8)]]]

(***************************************************************************)
(* setDefaultDevice(deviceId)                                              *)
(***************************************************************************)
\* the membership check is only a check that the list is not empty
InList_NonEmpty(devices, deviceIdW) == Len(devices) > 0

\* std::find_if over the enumerated records, by exact id equality
InList(devices, deviceIdW) == \E i \in DOMAIN devices : devices[i].id = deviceIdW

\* the policy calls are made only when the id is found
Found(deviceIdW, e) ==
    LET res == listOutputDevices(e)
    IN  ~res.threw /\ InList(res.devices, deviceIdW)

SetDefaultScenarios(id) ==
    {[coinit |-> FALSE, ef |-> NoEnumFault, pf |-> NoPolicyFault]}
    \cup {[coinit |-> TRUE, ef |-> e, pf |-> NoPolicyFault] :
             e \in {x \in EnumFaults : ~Found(WidenBytes(id), x)}}
    \cup {[coinit |-> TRUE, ef |-> e, pf |-> p] :
             e \in {x \in EnumFaults : Found(WidenBytes(id), x)}, p \in PolicyFaults}

\* the argument validation: true when the call is rejected
SetDefaultDeviceRejects(info) == info.argc < 1 \/ ~IsString(info, 0)

\* the call's record and the role defaults after it
SetDefaultDeviceResult(info, sc) ==
    IF SetDefaultDeviceRejects(info)
    THEN [rec |-> UsageError("setDefaultDevice", info, "Device ID string expected"),
          defaults |-> defaults]
    ELSE
    LET deviceIdUtf8 == info.args[1].s
        c == [Call("setDefaultDevice", info) EXCEPT !.id = deviceIdUtf8,
                                                     !.initOk = sc.coinit]
        deviceIdW == WidenBytes(deviceIdUtf8)
        com == COMInitializer(sc.coinit)
    IN  IF com.threw
        THEN [rec |-> [c EXCEPT !.outcome = "TypeError", !.what = com.what],
              defaults |-> defaults]
        ELSE
        LET g == Guarded(c, com, {"enumerate"})
            res == listOutputDevices(sc.ef)
        IN  IF res.threw
            THEN [rec |-> [g EXCEPT !.outcome = "TypeError",
                                    !.what = res.what],
                  defaults |-> defaults]
            ELSE IF ~InList(res.devices, deviceIdW)
            THEN [rec |-> [g EXCEPT !.enumOk = TRUE,
                                    !.enumerated = Enumerated(res),
                                    !.outcome = "bool", !.value = FALSE],
                  defaults |-> defaults]
            ELSE
            LET set == setDefaultOutputDevice(deviceIdW, sc.pf)
            IN  IF set.threw
                THEN [rec |-> [g EXCEPT !.enumOk = TRUE, !.found = TRUE,
                                        !.apis = g.apis \cup {"policy"},
                                        !.enumerated = Enumerated(res),
                                        !.outcome = "TypeError",
                                        !.what = "[x] Failed to create IPolicyConfig COM object."],
                      defaults |-> set.defaults]
                ELSE
                [rec |-> [g EXCEPT !.enumOk = TRUE, !.found = TRUE,
                                   !.apis = g.apis \cup {"policy"},
                                   !.enumerated = Enumerated(res),
                                   !.policy = set.created, !.calls = set.calls,
                                   !.hrs = set.hrs, !.outcome = "bool",
                                   !.value = set.result,
                                   !.target = DeviceWithId(deviceIdW)],
                 defaults |-> set.defaults]

(***************************************************************************)
(* setDefaultPlaybackMute(mute) and muteDeviceById(deviceId, mute)         *)
(***************************************************************************)
MuteScenarios ==
    {[coinit |-> FALSE, fault |-> "none"]}
    \cup {[coinit |-> TRUE, fault |-> f] : f \in MuteFaults}

\* only a missing argument is rejected, extra arguments pass
SetDefaultPlaybackMuteRejects_TooFewOnly(info) == info.argc < 1 \/ ~IsBoolean(info, 0)

\* the argument validations: true when the call is rejected
SetDefaultPlaybackMuteRejects(info) == info.argc # 1 \/ ~IsBoolean(info, 0)

MuteDeviceByIdRejects(info) ==
    info.argc # 2 \/ ~IsString(info, 0) \/ ~IsBoolean(info, 1)

\* a failed lookup falls back to the console default
GetDevice_FallsBackToDefault(deviceId, fault) ==
    IF fault = "resolve" \/ DeviceWithId(deviceId) = NoDevice
    THEN defaults["eConsole"]
    ELSE DeviceWithId(deviceId)

\* IMMDeviceEnumerator::GetDevice resolves the id among all endpoints the
\* platform knows; NoDevice when the lookup fails
GetDevice(deviceId, fault) ==
    IF fault = "resolve" THEN NoDevice ELSE DeviceWithId(deviceId)

\* the call's record and the mute flags after it
SetDefaultPlaybackMuteResult(info, sc) ==
    IF SetDefaultPlaybackMuteRejects(info)
    THEN [rec |-> UsageError("setDefaultPlaybackMute", info,
                             "Expected one boolean argument (true=mute, false=unmute)"),
          muted |-> muted]
    ELSE
    LET mute == info.args[1].b
        c == [Call("setDefaultPlaybackMute", info) EXCEPT !.mute = mute,
                                                           !.initOk = sc.coinit,
                                                           !.muteFault = sc.fault]
        com == COMInitializer(sc.coinit)
    IN  IF com.threw
        THEN [rec |-> [c EXCEPT !.outcome = "Error",
                          !.what = "Failed to set mute state for default playback device"],
              muted |-> muted]
        ELSE
        LET g == Guarded(c, com, {"default"})
            m == SetDefaultPlaybackDeviceMute(mute, sc.fault)
        IN  [rec |-> [g EXCEPT !.outcome = "bool", !.value = m.result,
                               !.apis = IF m.target = NoDevice THEN g.apis
                                        ELSE g.apis \cup {"volume"},
                               !.target = m.target,
                               !.preMuted = IF m.target = NoDevice THEN FALSE
                                            ELSE muted[m.target]],
             muted |-> m.muted]

MuteDeviceByIdResult(info, sc) ==
    IF MuteDeviceByIdRejects(info)
    THEN [rec |-> UsageError("muteDeviceById", info,
                             "Expected arguments: (string deviceId, boolean mute)"),
          muted |-> muted]
    ELSE
    LET idUtf8 == info.args[1].s
        mute == info.args[2].b
        c == [Call("muteDeviceById", info) EXCEPT !.id = idUtf8, !.mute = mute,
                                                   !.initOk = sc.coinit,
                                                   !.muteFault = sc.fault]
        deviceId == WidenBytes(idUtf8)
        com == COMInitializer(sc.coinit)
    IN  IF com.threw
        THEN [rec |-> [c EXCEPT !.outcome = "Error",
                          !.what = "Failed to mute device - system error occurred"],
              muted |-> muted]
        ELSE
        LET g == Guarded(c, com, {"lookup"})
        IN
        IF sc.fault = "create"
        THEN [rec |-> [g EXCEPT !.outcome = "bool", !.value = FALSE],
              muted |-> muted]
        ELSE
        LET device == GetDevice(deviceId, sc.fault)
        IN  IF device = NoDevice
            THEN [rec |-> [g EXCEPT !.outcome = "bool", !.value = FALSE],
                  muted |-> muted]
            ELSE
            LET m == MuteDevice(device, mute, sc.fault)
            IN  [rec |-> [g EXCEPT !.found = TRUE, !.outcome = "bool",
                                   !.apis = g.apis \cup {"volume"},
                                   !.value = m.result, !.target = device,
                                   !.preMuted = muted[device]],
                 muted |-> m.muted]

(***************************************************************************)
(* The platform calls of one operation, in program order: the apartment    *)
(* calls of its COMInitializer, the acquisition and release of every       *)
(* reference-counted interface pointer, and the calls made through them.   *)
(* A reference is named by its kind and a number: the endpoint for device, *)
(* store and volume references, the acquisition site for enumerators.      *)
(***************************************************************************)
Ev(e, kind, n) == [e |-> e, kind |-> kind, n |-> n]

Acquire(kind, n) == <<Ev("acquire", kind, n)>>

\* p->Release() and SafeRelease(p) on a non-null pointer
Release(kind, n) == <<Ev("release", kind, n)>>

Use(api, n) == <<Ev("call", api, n)>>

CoInitializeEx == <<Ev("CoInitializeEx", "apartment", 0)>>

CoUninitialize == <<Ev("CoUninitialize", "apartment", 0)>>

\* the enumerators of the three acquisition sites
DefaultSite == 1
ListSite == 2
LookupSite == 3

RECURSIVE Flatten(_)
Flatten(ss) == IF ss = <<>> THEN <<>> ELSE Head(ss) \o Flatten(Tail(ss))

\* GetDefaultAudioPlaybackDevice: the enumerator is released right after the
\* query, the endpoint reference goes to the caller
GetDefaultAudioPlaybackDeviceTrace(fault) ==
    IF fault = "create" THEN Use("CoCreateInstance", DefaultSite)
    ELSE Use("CoCreateInstance", DefaultSite)
         \o Acquire("enumerator", DefaultSite)
         \o Use("GetDefaultAudioEndpoint", DefaultSite)
         \o (IF GetDefaultAudioPlaybackDevice(fault) # NoDevice
             THEN Acquire("defaultDevice", GetDefaultAudioPlaybackDevice(fault))
             ELSE <<>>)
         \o Release("enumerator", DefaultSite)

\* a failed property-store open skips the endpoint without releasing it
ItemTrace_LeaksOnStoreFailure(d, outcome) ==
    Use("Item", d)
    \o (IF outcome = "item" THEN <<>>
        ELSE Acquire("device", d) \o Use("GetId", d)
             \o (IF outcome = "id" THEN Release("device", d)
                 ELSE Use("OpenPropertyStore", d)
                      \o (IF outcome = "store" THEN <<>>
                          ELSE Acquire("store", d) \o Use("GetValue", d)
                               \o (IF outcome = "name" THEN Release("device", d)
                                   ELSE <<>>)
                               \o Release("store", d))))

\* the loop body of listOutputDevices for one endpoint of the collection
ItemTrace(d, outcome) ==
    Use("Item", d)
    \o (IF outcome = "item" THEN <<>>
        ELSE Acquire("device", d) \o Use("GetId", d)
             \o (IF outcome = "id" THEN Release("device", d)
                 ELSE Use("OpenPropertyStore", d)
                      \o (IF outcome = "store" THEN Release("device", d)
                          ELSE Acquire("store", d) \o Use("GetValue", d)
                               \o (IF outcome = "name" THEN Release("device", d)
                                   ELSE <<>>)
                               \o Release("store", d))))

\* AudioManager::listOutputDevices; the device references of the records it
\* returns stay with the records
listOutputDevicesTrace(f) ==
    IF f.stage = "create" THEN Use("CoCreateInstance", ListSite)
    ELSE Use("CoCreateInstance", ListSite) \o Acquire("enumerator", ListSite)
         \o Use("EnumAudioEndpoints", ListSite)
         \o (IF f.stage = "enum" THEN Release("enumerator", ListSite)
             ELSE Acquire("collection", ListSite) \o Use("GetCount", ListSite)
                  \o (IF f.stage = "count" \/ Len(Collection) = 0
                      THEN <<>>
                      ELSE Flatten([i \in DOMAIN Collection |->
                                       ItemTrace(Collection[i], f.dev[Collection[i]])]))
                  \o Release("collection", ListSite)
                  \o Release("enumerator", ListSite))

\* ~AudioDevice of every record of a vector going out of scope
RecordsDestroyed(devices) ==
    Flatten([i \in DOMAIN devices |-> Release("device", devices[i].device)])

\* AudioManager::setDefaultOutputDevice
setDefaultOutputDeviceTrace(deviceId, f) ==
    Use("CoCreateInstance(PolicyConfig)", 0)
    \o (IF ~f.policy THEN <<>>
        ELSE Acquire("policy", 0)
             \o Flatten([i \in DOMAIN Roles |-> Use("SetDefaultEndpoint", i)])
             \o Release("policy", 0))

\* Utility::MuteDevice on a non-null endpoint reference
MuteDeviceTrace(device, fault) ==
    Use("Activate", device)
    \o (IF fault = "activate" THEN <<>>
        ELSE Acquire("volume", device) \o Use("SetMute", device)
             \o Release("volume", device))

\* Utility::SetDefaultPlaybackDeviceMute
SetDefaultPlaybackDeviceMuteTrace(fault) ==
    LET device == GetDefaultAudioPlaybackDevice(fault)
    IN  GetDefaultAudioPlaybackDeviceTrace(fault)
        \o (IF device = NoDevice THEN <<>>
            ELSE Use("Activate", device)
                 \o (IF fault = "activate" THEN Release("defaultDevice", device)
                     ELSE Acquire("volume", device) \o Use("SetMute", device)
                          \o Release("volume", device)
                          \o Release("defaultDevice", device)))

\* the value the operation hands to JavaScript is built (Napi::...::New)
Result == <<Ev("result", "value", 0)>>

\* the catch block raises the JavaScript error
Raise == <<Ev("result", "raise", 0)>>

\* the guard is destroyed before the handles are released
Scoped_GuardDestroyedFirst(coinit, body, threw, locals) ==
    LET com == COMInitializer(coinit)
    IN  CoInitializeEx
        \o (IF com.threw THEN Raise
            ELSE (IF COMInitializerDtor(com) = 1 THEN CoUninitialize ELSE <<>>)
                 \o body
                 \o (IF threw THEN <<>> ELSE Result)
                 \o locals
                 \o (IF threw THEN Raise ELSE <<>>))

\* the try block of an operation: the guard's constructor; when it did not
\* throw, the body up to its return statement or its throw, the destructors
\* of the locals declared after the guard, and the guard's destructor; the
\* catch block when something threw
Scoped(coinit, body, threw, locals) ==
    LET com == COMInitializer(coinit)
    IN  CoInitializeEx
        \o (IF com.threw THEN Raise
            ELSE body
                 \o (IF threw THEN <<>> ELSE Result)
                 \o locals
                 \o (IF COMInitializerDtor(com) = 1 THEN CoUninitialize ELSE <<>>)
                 \o (IF threw THEN Raise ELSE <<>>))

ListDevicesTrace(sc) ==
    LET device == GetDefaultAudioPlaybackDevice(sc.df)
        res == listOutputDevices(sc.ef)
    IN  Scoped(sc.coinit,
               GetDefaultAudioPlaybackDeviceTrace(sc.df)
               \o (IF device = NoDevice THEN <<>>
                   ELSE Use("GetId", device) \o Release("defaultDevice", device))
               \o listOutputDevicesTrace(sc.ef),
               res.threw,
               RecordsDestroyed(res.devices))

SetDefaultDeviceTrace(info, sc) ==
    IF SetDefaultDeviceRejects(info) THEN Raise
    ELSE LET deviceIdW == WidenBytes(info.args[1].s)
             res == listOutputDevices(sc.ef)
         IN  Scoped(sc.coinit,
                    listOutputDevicesTrace(sc.ef)
                    \o (IF ~res.threw /\ InList(res.devices, deviceIdW)
                        THEN setDefaultOutputDeviceTrace(deviceIdW, sc.pf)
                        ELSE <<>>),
                    res.threw,
                    RecordsDestroyed(res.devices))

SetDefaultPlaybackMuteTrace(info, sc) ==
    IF SetDefaultPlaybackMuteRejects(info) THEN Raise
    ELSE Scoped(sc.coinit, SetDefaultPlaybackDeviceMuteTrace(sc.fault), FALSE, <<>>)

\* the enumerator is held until the end of the function
MuteDeviceByIdTrace_HoldsEnumerator(info, sc) ==
    IF MuteDeviceByIdRejects(info) THEN Raise
    ELSE LET device == GetDevice(WidenBytes(info.args[1].s), sc.fault)
         IN  Scoped(sc.coinit,
                    Use("CoCreateInstance", LookupSite)
                    \o (IF sc.fault = "create" THEN <<>>
                        ELSE Acquire("enumerator", LookupSite)
                             \o Use("GetDevice", LookupSite)
                             \o (IF device = NoDevice THEN <<>>
                                 ELSE Acquire("lookedUpDevice", device)
                                      \o MuteDeviceTrace(device, sc.fault)
                                      \o Release("lookedUpDevice", device))
                             \o Release("enumerator", LookupSite)),
                    FALSE,
                    <<>>)

MuteDeviceByIdTrace(info, sc) ==
    IF MuteDeviceByIdRejects(info) THEN Raise
    ELSE LET device == GetDevice(WidenBytes(info.args[1].s), sc.fault)
         IN  Scoped(sc.coinit,
                    Use("CoCreateInstance", LookupSite)
                    \o (IF sc.fault = "create" THEN <<>>
                        ELSE Acquire("enumerator", LookupSite)
                             \o Use("GetDevice", LookupSite)
                             \o (IF device = NoDevice THEN <<>>
                                 ELSE Acquire("lookedUpDevice", device))
                             \o Release("enumerator", LookupSite)
                             \o (IF device = NoDevice THEN <<>>
                                 ELSE MuteDeviceTrace(device, sc.fault)
                                      \o Release("lookedUpDevice", device))),
                    FALSE,
                    <<>>)

(***************************************************************************)
(* COMInitializer objects (COMInitializer.h, COMInitializer.cpp): the      *)
(* guards a program holds, each live or not and with its m_initialized     *)
(* flag, the CoInitializeEx calls that succeeded and the CoUninitialize    *)
(* calls made so far, and what the last operation on a guard did.          *)
(***************************************************************************)
MaxGuards == 3

MaxInits == 3

GuardSlots == 1..MaxGuards

NoGuard == [live |-> FALSE, m_initialized |-> FALSE]

NoGuardOp == [op |-> "none", movedFrom |-> FALSE, uninit |-> 0]

NoGuards ==
    [obj |-> [g \in GuardSlots |-> NoGuard], inits |-> 0, uninits |-> 0, op |-> NoGuardOp]

\* ~COMInitializer: the CoUninitialize calls it makes
GuardDtor(self) == IF self.m_initialized THEN 1 ELSE 0

\* the source keeps its flag
GuardMoveCtor_KeepsSource(other) ==
    [self |-> [live |-> TRUE, m_initialized |-> other.m_initialized],
     other |-> other]

\* COMInitializer(COMInitializer &&other)
GuardMoveCtor(other) ==
    [self |-> [live |-> TRUE, m_initialized |-> other.m_initialized],
     other |-> [other EXCEPT !.m_initialized = FALSE]]

\* operator=(COMInitializer &&other) when this != &other
GuardMoveAssign(self, other) ==
    [uninit |-> IF self.m_initialized THEN 1 ELSE 0,
     self |-> [self EXCEPT !.m_initialized = other.m_initialized],
     other |-> [other EXCEPT !.m_initialized = FALSE]]

\* COMInitializer com; a throwing constructor leaves no object behind
ConstructGuard ==
    /\ guards.inits < MaxInits
    /\ \E g \in GuardSlots, ok \in BOOLEAN :
        /\ ~guards.obj[g].live
        /\ LET com == COMInitializer(ok)
           IN  guards' = [guards EXCEPT
                   !.obj[g] = IF com.threw THEN NoGuard
                              ELSE [live |-> TRUE, m_initialized |-> com.initialized],
                   !.inits = IF com.threw THEN @ ELSE @ + 1,
                   !.op = [op |-> "construct", movedFrom |-> FALSE, uninit |-> 0]]
    /\ UNCHANGED <<active, defaults, muted, last, prev, records, threads>>

\* COMInitializer b(std::move(a));
MoveConstructGuard ==
    /\ \E g \in GuardSlots, o \in GuardSlots :
        /\ ~guards.obj[g].live
        /\ guards.obj[o].live
        /\ LET m == GuardMoveCtor(guards.obj[o])
           IN  guards' = [guards EXCEPT
                   !.obj = [@ EXCEPT ![g] = m.self, ![o] = m.other],
                   !.op = [op |-> "moveConstruct",
                           movedFrom |-> ~guards.obj[o].m_initialized, uninit |-> 0]]
    /\ UNCHANGED <<active, defaults, muted, last, prev, records, threads>>

\* b = std::move(a); a and b may be the same object
MoveAssignGuard ==
    /\ \E g \in GuardSlots, o \in GuardSlots :
        /\ guards.obj[g].live
        /\ guards.obj[o].live
        /\ IF g = o
           THEN guards' = [guards EXCEPT
                    !.op = [op |-> "selfAssign",
                            movedFrom |-> ~guards.obj[g].m_initialized, uninit |-> 0]]
           ELSE LET m == GuardMoveAssign(guards.obj[g], guards.obj[o])
                IN  guards' = [guards EXCEPT
                        !.obj = [@ EXCEPT ![g] = m.self, ![o] = m.other],
                        !.uninits = @ + m.uninit,
                        !.op = [op |-> "moveAssign",
                                movedFrom |-> ~guards.obj[g].m_initialized,
                                uninit |-> m.uninit]]
    /\ UNCHANGED <<active, defaults, muted, last, prev, records, threads>>

\* the guard goes out of scope
DestroyGuard ==
    /\ \E g \in GuardSlots :
        /\ guards.obj[g].live
        /\ guards' = [guards EXCEPT
               !.obj[g] = NoGuard,
               !.uninits = @ + GuardDtor(guards.obj[g]),
               !.op = [op |-> "destroy", movedFrom |-> ~guards.obj[g].m_initialized,
                       uninit |-> GuardDtor(guards.obj[g])]]
    /\ UNCHANGED <<active, defaults, muted, last, prev, records, threads>>

NextGuards ==
    \/ ConstructGuard
    \/ MoveConstructGuard
    \/ MoveAssignGuard
    \/ DestroyGuard

(***************************************************************************)
(* AudioDevice objects (AudioSwitcher.h): the records a program holds,     *)
(* each live or not and with its device pointer (NoDevice for nullptr),    *)
(* the endpoint references acquired for them, how often each reference was *)
(* released, and what the last operation on a record did.                  *)
(***************************************************************************)
MaxRecords == 2

MaxHandles == 2

RecordSlots == 1..MaxRecords

Handles == 1..MaxHandles

NoRecord == [live |-> FALSE, device |-> NoDevice]

NoRecordOp == [op |-> "none", source |-> 0, target |-> 0, prior |-> NoDevice]

NoRecords ==
    [obj |-> [r \in RecordSlots |-> NoRecord], acquired |-> {},
     released |-> [h \in Handles |-> 0], op |-> NoRecordOp]

\* device->Release() on a non-null pointer
ReleaseHandle(released, device) ==
    IF device = NoDevice THEN released ELSE [released EXCEPT ![device] = @ + 1]

\* the source keeps its pointer
AudioDeviceMoveCtor_KeepsSource(other) ==
    [self |-> [live |-> TRUE, device |-> other.device],
     other |-> other]

\* AudioDevice(AudioDevice &&other)
AudioDeviceMoveCtor(other) ==
    [self |-> [live |-> TRUE, device |-> other.device],
     other |-> [other EXCEPT !.device = NoDevice]]

\* operator=(AudioDevice &&other) when this != &other
AudioDeviceMoveAssign(self, other) ==
    [release |-> self.device,
     self |-> [self EXCEPT !.device = other.device],
     other |-> [other EXCEPT !.device = NoDevice]]

\* AudioDevice device; device.device = pDevice; with the reference Item has
\* just handed out, or a record left without a pointer
BuildRecord ==
    /\ \E r \in RecordSlots, h \in (Handles \ records.acquired) \cup {NoDevice} :
        /\ ~records.obj[r].live
        /\ records' = [records EXCEPT
               !.obj[r] = [live |-> TRUE, device |-> h],
               !.acquired = IF h = NoDevice THEN @ ELSE @ \cup {h},
               !.op = [op |-> "build", source |-> 0, target |-> r, prior |-> NoDevice]]
    /\ UNCHANGED <<active, defaults, muted, last, prev, guards, threads>>

\* devices.push_back(std::move(device));
MoveConstructRecord ==
    /\ \E r \in RecordSlots, o \in RecordSlots :
        /\ ~records.obj[r].live
        /\ records.obj[o].live
        /\ LET m == AudioDeviceMoveCtor(records.obj[o])
           IN  records' = [records EXCEPT
                   !.obj = [@ EXCEPT ![r] = m.self, ![o] = m.other],
                   !.op = [op |-> "moveConstruct", source |-> o, target |-> r,
                           prior |-> NoDevice]]
    /\ UNCHANGED <<active, defaults, muted, last, prev, guards, threads>>

\* a = std::move(b); a and b may be the same object
MoveAssignRecord ==
    /\ \E r \in RecordSlots, o \in RecordSlots :
        /\ records.obj[r].live
        /\ records.obj[o].live
        /\ IF r = o
           THEN records' = [records EXCEPT
                    !.op = [op |-> "selfAssign", source |-> o, target |-> r,
                            prior |-> NoDevice]]
           ELSE LET m == AudioDeviceMoveAssign(records.obj[r], records.obj[o])
                IN  records' = [records EXCEPT
                        !.obj = [@ EXCEPT ![r] = m.self, ![o] = m.other],
                        !.released = ReleaseHandle(@, m.release),
                        !.op = [op |-> "moveAssign", source |-> o, target |-> r,
                                prior |-> m.release]]
    /\ UNCHANGED <<active, defaults, muted, last, prev, guards, threads>>

\* ~AudioDevice
DestroyRecord ==
    /\ \E r \in RecordSlots :
        /\ records.obj[r].live
        /\ records' = [records EXCEPT
               !.obj[r] = NoRecord,
               !.released = ReleaseHandle(@, records.obj[r].device),
               !.op = [op |-> "destroy", source |-> 0, target |-> r,
                       prior |-> records.obj[r].device]]
    /\ UNCHANGED <<active, defaults, muted, last, prev, guards, threads>>

NextRecords ==
    \/ BuildRecord
    \/ MoveConstructRecord
    \/ MoveAssignRecord
    \/ DestroyRecord

(***************************************************************************)
(* Two threads of one process: one runs ListDevices, the other runs        *)
(* SetDefaultDevice, each platform call a step of its own.  The addon      *)
(* takes no lock; the endpoints and the role defaults belong to the        *)
(* platform.  seen is the set of console defaults the platform has held    *)
(* since the listing in progress began.                                    *)
(***************************************************************************)
MaxSwitches == 2

NoLister ==
    [pc |-> "idle", defaultIdUtf8 |-> <<>>, count |-> 0, i |-> 0,
     devices |-> <<>>, list |-> <<>>, raised |-> FALSE]

NoSwitcher == [pc |-> "idle", deviceIdW |-> <<>>, role |-> 0, success |-> TRUE]

NoThreads ==
    [lister |-> NoLister, switcher |-> NoSwitcher, switches |-> 0, seen |-> {}]

Listing == threads.lister.pc \notin {"idle", "done"}

\* ListDevices is called: COMInitializer com;
ListBegin ==
    /\ threads.lister.pc \in {"idle", "done"}
    /\ \E coinit \in BOOLEAN :
        LET com == COMInitializer(coinit)
        IN  threads' = [threads EXCEPT
                !.lister = IF com.threw
                           THEN [NoLister EXCEPT !.pc = "done", !.raised = TRUE]
                           ELSE [NoLister EXCEPT !.pc = "default"],
                !.seen = IF com.threw THEN {} ELSE {defaults["eConsole"]}]
    /\ UNCHANGED <<active, defaults, muted, last, prev, guards, records>>

\* Utility::GetDefaultAudioPlaybackDevice(), GetId, WStringToUtf8
ListReadDefault ==
    /\ threads.lister.pc = "default"
    /\ \E df \in DefaultFaults :
        LET defaultDevice == GetDefaultAudioPlaybackDevice(df)
            defaultIdW == IF defaultDevice # NoDevice /\ df # "getId"
                          THEN DevId(defaultDevice) ELSE <<>>
        IN  threads' = [threads EXCEPT
                !.lister.defaultIdUtf8 = WStringToUtf8(defaultIdW),
                !.lister.pc = "enum"]
    /\ UNCHANGED <<active, defaults, muted, last, prev, guards, records>>

\* listOutputDevices up to its loop: enumerator, collection, count
ListEnumerate ==
    /\ threads.lister.pc = "enum"
    /\ \E stage \in {"create", "enum", "count", "none"} :
        threads' = [threads EXCEPT
            !.lister = IF stage # "none" \/ Len(Collection) = 0
                       THEN [@ EXCEPT !.pc = "done", !.raised = TRUE]
                       ELSE [@ EXCEPT !.pc = "loop", !.count = Len(Collection), !.i = 1],
            !.seen = IF stage # "none" \/ Len(Collection) = 0 THEN {} ELSE @]
    /\ UNCHANGED <<active, defaults, muted, last, prev, guards, records>>

\* one pass of the loop: Item, GetId, OpenPropertyStore, GetValue
ListReadItem ==
    /\ threads.lister.pc = "loop"
    /\ threads.lister.i <= threads.lister.count
    /\ \E outcome \in DevOutcomes :
        threads' = [threads EXCEPT
            !.lister.devices = IF outcome = "ok"
                               THEN Append(@, AudioDevice(Collection[threads.lister.i]))
                               ELSE @,
            !.lister.i = @ + 1]
    /\ UNCHANGED <<active, defaults, muted, last, prev, guards, records>>

\* the result array is built from the records and the id read at the start
ListBuild ==
    /\ threads.lister.pc = "loop"
    /\ threads.lister.i > threads.lister.count
    /\ threads' = [threads EXCEPT
           !.lister.pc = "done",
           !.lister.list = [k \in DOMAIN threads.lister.devices |->
               LET name == WStringToUtf8(threads.lister.devices[k].name)
                   id == WStringToUtf8(threads.lister.devices[k].id)
               IN  [name |-> name, id |-> id,
                    isDefault |-> (id = threads.lister.defaultIdUtf8)]]]
    /\ UNCHANGED <<active, defaults, muted, last, prev, guards, records>>

\* SetDefaultDevice is called with the id of an endpoint: widening, guard,
\* enumeration and membership check
SwitchBegin ==
    /\ threads.switcher.pc = "idle"
    /\ threads.switches < MaxSwitches
    /\ \E idUtf8 \in InputIds :
        LET deviceIdW == WidenBytes(idUtf8)
            res == listOutputDevices(NoEnumFault)
        IN  threads' = [threads EXCEPT
                !.switches = @ + 1,
                !.switcher = IF ~res.threw /\ InList(res.devices, deviceIdW)
                             THEN [pc |-> "assign", deviceIdW |-> deviceIdW,
                                   role |-> 1, success |-> TRUE]
                             ELSE NoSwitcher]
    /\ UNCHANGED <<active, defaults, muted, last, prev, guards, records>>

\* one SetDefaultEndpoint call of setDefaultOutputDevice
SwitchAssign ==
    /\ threads.switcher.pc = "assign"
    /\ \E ok \in BOOLEAN :
        LET role == Roles[threads.switcher.role]
            defs == SetDefaultEndpoint(defaults, threads.switcher.deviceIdW, role, ok)
        IN  /\ defaults' = defs
            /\ threads' = [threads EXCEPT
                   !.switcher = IF threads.switcher.role = Len(Roles)
                                THEN NoSwitcher
                                ELSE [@ EXCEPT !.role = @ + 1,
                                               !.success = @ /\ ok],
                   !.seen = IF Listing THEN @ \cup {defs["eConsole"]} ELSE @]
    /\ UNCHANGED <<active, muted, last, prev, guards, records>>

NextThreads ==
    \/ ListBegin
    \/ ListReadDefault
    \/ ListEnumerate
    \/ ListReadItem
    \/ ListBuild
    \/ SwitchBegin
    \/ SwitchAssign

(***************************************************************************)
(* The state machine.  Every public operation is synchronous and runs to   *)
(* completion on the calling thread, so each is one action, taken when no  *)
(* call is in progress.  last is the record of the call that has just      *)
(* completed (NoCall between calls); Return hands its result to the caller *)
(* and prev keeps what the caller then knows of it: the call before the    *)
(* next one, when it returned a list or true and the endpoints have not    *)
(* changed since.                                                          *)
(***************************************************************************)
NoPrev ==
    [op |-> "none", id |-> <<>>, mute |-> FALSE, list |-> <<>>,
     target |-> NoDevice, preMuted |-> FALSE]

Summary(r) ==
    IF r.outcome = "list" \/ (r.outcome = "bool" /\ r.value)
    THEN [op |-> r.op, id |-> r.id, mute |-> r.mute, list |-> r.list,
          target |-> r.target, preMuted |-> r.preMuted]
    ELSE NoPrev

Idle == last.op = "none"

Init ==
    /\ active = Devices
    /\ \E d \in Devices : defaults = [r \in RoleSet |-> d]
    /\ muted = [d \in Devices |-> FALSE]
    /\ last = NoCall
    /\ prev = NoPrev
    /\ guards = NoGuards
    /\ records = NoRecords
    /\ threads = NoThreads

\* the platform faults a call can meet: none when the call is rejected
\* before its first platform call
QuietList == [coinit |-> TRUE, df |-> "none", ef |-> NoEnumFault]

QuietSwitch == [coinit |-> TRUE, ef |-> NoEnumFault, pf |-> NoPolicyFault]

QuietMute == [coinit |-> TRUE, fault |-> "none"]

ListDevicesOn(scenarios) ==
    /\ Idle
    /\ \E info \in Infos(0), sc \in scenarios :
        /\ last' = ListDevicesResult(info, sc)
        /\ UNCHANGED <<active, defaults, muted, prev, guards, records, threads>>

SetDefaultDeviceOn(quietOnly) ==
    /\ Idle
    /\ \E info \in Infos(1) :
        \E sc \in IF SetDefaultDeviceResult(info, QuietSwitch).rec.usage \/ quietOnly
                  THEN {QuietSwitch}
                  ELSE SetDefaultScenarios(info.args[1].s) :
            LET r == SetDefaultDeviceResult(info, sc)
            IN  /\ last' = r.rec
                /\ defaults' = r.defaults
                /\ UNCHANGED <<active, muted, prev, guards, records, threads>>

SetDefaultPlaybackMuteOn(scenarios) ==
    /\ Idle
    /\ \E info \in Infos(1) :
        \E sc \in IF SetDefaultPlaybackMuteResult(info, QuietMute).rec.usage
                  THEN {QuietMute} ELSE scenarios :
            LET r == SetDefaultPlaybackMuteResult(info, sc)
            IN  /\ last' = r.rec
                /\ muted' = r.muted
                /\ UNCHANGED <<active, defaults, prev, guards, records, threads>>

MuteDeviceByIdOn(scenarios) ==
    /\ Idle
    /\ \E info \in Infos(2) :
        \E sc \in IF MuteDeviceByIdResult(info, QuietMute).rec.usage
                  THEN {QuietMute} ELSE scenarios :
            LET r == MuteDeviceByIdResult(info, sc)
            IN  /\ last' = r.rec
                /\ muted' = r.muted
                /\ UNCHANGED <<active, defaults, prev, guards, records, threads>>

ListDevices == ListDevicesOn(ListScenarios)

SetDefaultDevice == SetDefaultDeviceOn(FALSE)

SetDefaultPlaybackMute == SetDefaultPlaybackMuteOn(MuteScenarios)

MuteDeviceById == MuteDeviceByIdOn(MuteScenarios)

\* the call returns to its caller
Return ==
    /\ ~Idle
    /\ prev' = Summary(last)
    /\ last' = NoCall
    /\ UNCHANGED <<active, defaults, muted, guards, records, threads>>

\* an endpoint leaves the active collection; a role it held falls to another
\* active endpoint, or to none when none is left
Unplug ==
    /\ Idle
    /\ \E d \in active :
        \E e \in IF active = {d} THEN {NoDevice} ELSE active \ {d} :
            /\ active' = active \ {d}
            /\ defaults' = [r \in RoleSet |-> IF defaults[r] = d THEN e ELSE defaults[r]]
            /\ prev' = NoPrev
            /\ UNCHANGED <<muted, last, guards, records, threads>>

\* an endpoint joins the active collection; a role without a default takes it
Plug ==
    /\ Idle
    /\ \E d \in Devices \ active :
        /\ active' = active \cup {d}
        /\ defaults' = [r \in RoleSet |-> IF defaults[r] = NoDevice THEN d ELSE defaults[r]]
        /\ prev' = NoPrev
        /\ UNCHANGED <<muted, last, guards, records, threads>>

Next ==
    \/ ListDevices
    \/ SetDefaultDevice
    \/ SetDefaultPlaybackMute
    \/ MuteDeviceById
    \/ Return
    \/ Unplug
    \/ Plug

Spec == Init /\ [][Next]_vars

\* a program that only creates, moves and destroys guards
SpecGuards == Init /\ [][NextGuards]_vars

\* a program that only creates, moves and destroys device records
SpecRecords == Init /\ [][NextRecords]_vars

\* a program that lists on one thread and switches on another
SpecThreads == Init /\ [][NextThreads]_vars

\* the default-switch side alone: enumeration, switch and endpoint changes
NextSwitch ==
    \/ ListDevices
    \/ SetDefaultDevice
    \/ Return
    \/ Unplug
    \/ Plug

SpecSwitch == Init /\ [][NextSwitch]_vars

\* the mute side alone
NextMute ==
    \/ SetDefaultPlaybackMute
    \/ MuteDeviceById
    \/ Return
    \/ Unplug
    \/ Plug

SpecMute == Init /\ [][NextMute]_vars

\* every call shape of the four operations, on a platform whose calls succeed
\* once the apartment is initialized
NextCalls ==
    \/ ListDevicesOn({QuietList, [QuietList EXCEPT !.coinit = FALSE]})
    \/ SetDefaultDeviceOn(TRUE)
    \/ SetDefaultPlaybackMuteOn({QuietMute, [QuietMute EXCEPT !.coinit = FALSE]})
    \/ MuteDeviceByIdOn({QuietMute, [QuietMute EXCEPT !.coinit = FALSE]})
    \/ Return

SpecCalls == Init /\ [][NextCalls]_vars

(***************************************************************************)
(* The operations with their platform calls observed: each call's record   *)
(* carries the trace of the calls it made, under every fault the platform  *)
(* can raise in it.  The calls a role assignment makes do not depend on    *)
(* its HRESULT, so the assignments here succeed or fail together, and the  *)
(* caller keeps nothing of a call once it has returned.                    *)
(***************************************************************************)
HandleScenarios(id) ==
    {sc \in SetDefaultScenarios(id) : \A r \in RoleSet : sc.pf.hr[r] = sc.pf.policy}

ListDevicesTraced ==
    /\ Idle
    /\ \E info \in Infos(0), sc \in ListScenarios :
        /\ last' = [ListDevicesResult(info, sc) EXCEPT !.trace = ListDevicesTrace(sc)]
        /\ UNCHANGED <<active, defaults, muted, prev, guards, records, threads>>

SetDefaultDeviceTraced ==
    /\ Idle
    /\ \E info \in Infos(1) :
        \E sc \in IF SetDefaultDeviceRejects(info) THEN {QuietSwitch}
                  ELSE HandleScenarios(info.args[1].s) :
            LET r == SetDefaultDeviceResult(info, sc)
            IN  /\ last' = [r.rec EXCEPT !.trace = SetDefaultDeviceTrace(info, sc)]
                /\ defaults' = r.defaults
                /\ UNCHANGED <<active, muted, prev, guards, records, threads>>

SetDefaultPlaybackMuteTraced ==
    /\ Idle
    /\ \E info \in Infos(1) :
        \E sc \in IF SetDefaultPlaybackMuteRejects(info) THEN {QuietMute}
                  ELSE MuteScenarios :
            LET r == SetDefaultPlaybackMuteResult(info, sc)
            IN  /\ last' = [r.rec EXCEPT !.trace = SetDefaultPlaybackMuteTrace(info, sc)]
                /\ muted' = r.muted
                /\ UNCHANGED <<active, defaults, prev, guards, records, threads>>

MuteDeviceByIdTraced ==
    /\ Idle
    /\ \E info \in Infos(2) :
        \E sc \in IF MuteDeviceByIdRejects(info) THEN {QuietMute} ELSE MuteScenarios :
            LET r == MuteDeviceByIdResult(info, sc)
            IN  /\ last' = [r.rec EXCEPT !.trace = MuteDeviceByIdTrace(info, sc)]
                /\ muted' = r.muted
                /\ UNCHANGED <<active, defaults, prev, guards, records, threads>>

\* the call returns and its record is dropped
Forget ==
    /\ ~Idle
    /\ last' = NoCall
    /\ UNCHANGED <<active, defaults, muted, prev, guards, records, threads>>

NextHandles ==
    \/ ListDevicesTraced
    \/ SetDefaultDeviceTraced
    \/ SetDefaultPlaybackMuteTraced
    \/ MuteDeviceByIdTraced
    \/ Forget
    \/ Unplug
    \/ Plug

SpecHandles == Init /\ [][NextHandles]_vars

(***************************************************************************)
(* The package entry point (index.js) and a consumer that imports the      *)
(* operations from it by destructuring, as the README and the test scripts *)
(* do, and calls them.  The other specifications call the operations on    *)
(* the native exports object.                                              *)
(***************************************************************************)
\* the properties Init sets on the native exports object
AddonExports ==
    {"listDevices", "setDefaultDevice", "setDefaultPlaybackMute", "muteDeviceById"}

\* typeof addon[name]
AddonProperty(name) == IF name \in AddonExports THEN "function" ELSE "undefined"

\* module.exports of index.js: the type of each property it sets
ModuleExports ==
    [addon |-> "object",
     listDevices |-> AddonProperty("listDevices"),
     setDefaultDevice |-> AddonProperty("setDefaultDevice")]

\* the operations of the README's API reference
Documented ==
    {"listDevices", "setDefaultDevice", "setDefaultPlaybackMute", "muteDeviceById"}

\* const { name } = require('../index'): the type of the binding
Destructure(name) ==
    IF name \in DOMAIN ModuleExports THEN ModuleExports[name] ELSE "undefined"

\* calling a binding that is undefined: the runtime raises a TypeError at the
\* call site and no native code runs
NotAFunction(name, arity) ==
    /\ Idle
    /\ \E info \in Infos(arity) :
        last' = [Call(name, info) EXCEPT !.outcome = "TypeError",
                                         !.what = "is not a function",
                                         !.notFunction = TRUE]
    /\ UNCHANGED <<active, defaults, muted, prev, guards, records, threads>>

ImportedListDevices ==
    IF Destructure("listDevices") = "function"
    THEN ListDevicesOn({QuietList, [QuietList EXCEPT !.coinit = FALSE]})
    ELSE NotAFunction("listDevices", 0)

ImportedSetDefaultDevice ==
    IF Destructure("setDefaultDevice") = "function"
    THEN SetDefaultDeviceOn(TRUE)
    ELSE NotAFunction("setDefaultDevice", 1)

ImportedSetDefaultPlaybackMute ==
    IF Destructure("setDefaultPlaybackMute") = "function"
    THEN SetDefaultPlaybackMuteOn({QuietMute, [QuietMute EXCEPT !.coinit = FALSE]})
    ELSE NotAFunction("setDefaultPlaybackMute", 1)

ImportedMuteDeviceById ==
    IF Destructure("muteDeviceById") = "function"
    THEN MuteDeviceByIdOn({QuietMute, [QuietMute EXCEPT !.coinit = FALSE]})
    ELSE NotAFunction("muteDeviceById", 2)

NextPackage ==
    \/ ImportedListDevices
    \/ ImportedSetDefaultDevice
    \/ ImportedSetDefaultPlaybackMute
    \/ ImportedMuteDeviceById
    \/ Return

SpecPackage == Init /\ [][NextPackage]_vars

\* the calls that can raise: every call shape of the four operations, on a
\* platform where the apartment initialization and the whole-collection
\* calls of the enumeration can fail and endpoints come and go
WholeCollectionFaults == {e \in EnumFaults : \A d \in active : e.dev[d] = "ok"}

SetDefaultDeviceRaising ==
    /\ Idle
    /\ \E info \in Infos(1) :
        \E sc \in IF SetDefaultDeviceRejects(info) THEN {QuietSwitch}
                  ELSE {[coinit |-> FALSE, ef |-> NoEnumFault, pf |-> NoPolicyFault]}
                       \cup {[coinit |-> TRUE, ef |-> e, pf |-> NoPolicyFault] :
                                e \in WholeCollectionFaults} :
            LET r == SetDefaultDeviceResult(info, sc)
            IN  /\ last' = r.rec
                /\ defaults' = r.defaults
                /\ UNCHANGED <<active, muted, prev, guards, records, threads>>

NextErrors ==
    \/ ListDevicesOn({sc \in ListScenarios :
                         sc.df = "none" /\ sc.ef \in WholeCollectionFaults})
    \/ SetDefaultDeviceRaising
    \/ SetDefaultPlaybackMuteOn({QuietMute, [QuietMute EXCEPT !.coinit = FALSE]})
    \/ MuteDeviceByIdOn({QuietMute, [QuietMute EXCEPT !.coinit = FALSE]})
    \/ Return
    \/ Unplug
    \/ Plug

SpecErrors == Init /\ [][NextErrors]_vars

(***************************************************************************)
(* Properties of the default switch (SpecSwitch).                          *)
(***************************************************************************)
ListReturned == last.op = "listDevices" /\ last.outcome = "list"

SwitchCalled == last.op = "setDefaultDevice" /\ ~last.usage

Flagged(list) == {i \in DOMAIN list : list[i].isDefault}

ListIds(list) == {list[i].id : i \in DOMAIN list}

\* the id the call was given names a record of the call's own enumeration
InOwnEnumeration ==
    \E i \in DOMAIN last.enumerated : last.enumerated[i] = WidenBytes(last.id)

\* C1: in every list listDevices() returns, at most one record has
\* isDefault = true
C1_AtMostOneDefault == ListReturned => Cardinality(Flagged(last.list)) <= 1

C1_Witness ==
    /\ ListReturned
    /\ Len(last.list) >= 2
    /\ Cardinality(Flagged(last.list)) = 1

\* C2 as stated: setDefaultDevice(id) with an id that is in no record of the
\* preceding listDevices() result always returns false and never raises
C2_AlwaysFalse ==
    (/\ prev.op = "listDevices"
     /\ SwitchCalled
     /\ last.id \notin ListIds(prev.list))
    => (last.outcome = "bool" /\ ~last.value)

\* C2: setDefaultDevice(id) with an id that is in no record of the call's own
\* enumeration never switches: it returns false when the COM initialization
\* and the enumeration succeed, and raises a TypeError when either fails,
\* which an enumeration of zero devices does
C2_UnknownIdFalseOrRaises ==
    (SwitchCalled /\ ~InOwnEnumeration)
    => /\ last.outcome = IF last.initOk /\ last.enumOk THEN "bool" ELSE "TypeError"
       /\ ~last.value
       /\ defaults = last.preDefaults
       /\ (active = {} => last.outcome = "TypeError")

C2_Witness ==
    /\ prev.op = "listDevices"
    /\ SwitchCalled
    /\ last.id \notin ListIds(prev.list)
    /\ last.enumOk
    /\ last.outcome = "bool"
    /\ ~last.value

\* a listDevices() that returns a list right after a setDefaultDevice(id)
\* that returned true
ListAfterSwitch == prev.op = "setDefaultDevice" /\ ListReturned

C4_TrueIffAllSucceed ==
    SwitchCalled
    => /\ (last.outcome = "bool" /\ last.value)
          <=> (/\ InOwnEnumeration
               /\ last.policy
               /\ Len(last.hrs) = Len(Roles)
               /\ \A i \in DOMAIN last.hrs : last.hrs[i])
       /\ (last.policy /\ \E i \in DOMAIN last.hrs : ~last.hrs[i])
          => (last.outcome = "bool" /\ ~last.value)

C4_Witness ==
    /\ SwitchCalled
    /\ last.outcome = "bool"
    /\ last.value
    /\ last.hrs = <<TRUE, TRUE, TRUE>>

\* C5: once the policy object exists the three assignments are issued in the
\* order console, multimedia, communications whatever the earlier ones
\* returned, and nothing is rolled back: each role holds the target when its
\* assignment succeeded and what it held before the call when it failed
C5_NoRollback ==
    (last.op = "setDefaultDevice" /\ last.policy)
    => /\ last.calls = Roles
       /\ Len(last.hrs) = Len(Roles)
       /\ \A i \in DOMAIN Roles :
             defaults[Roles[i]] = IF last.hrs[i] THEN last.target
                                  ELSE last.preDefaults[Roles[i]]

C5_Witness ==
    /\ last.op = "setDefaultDevice"
    /\ last.outcome = "bool"
    /\ ~last.value
    /\ last.hrs = <<TRUE, FALSE, TRUE>>
    /\ defaults["eConsole"] = last.target
    /\ last.preDefaults["eConsole"] # last.target
    /\ defaults["eMultimedia"] # last.target

\* the id was found and the policy object could not be created
PolicyCreationFailed == last.op = "setDefaultDevice" /\ last.found /\ ~last.policy

\* C6 as stated: a failed policy creation is raised to the caller
C6_Raises == PolicyCreationFailed => last.outcome \in {"TypeError", "Error"}

\* C6: when the policy object cannot be created, setDefaultDevice returns
\* false: nothing is raised, no role assignment is issued and no default
\* changes
C6_ReturnsFalse ==
    PolicyCreationFailed
    => /\ last.outcome = "bool"
       /\ ~last.value
       /\ last.calls = <<>>
       /\ defaults = last.preDefaults

C6_Witness ==
    /\ PolicyCreationFailed
    /\ last.outcome = "bool"
    /\ ~last.value
    /\ last.enumerated # <<>>

\* C9 as stated: setDefaultDevice("") raises the usage error or returns
\* false, and raises nothing else
C9_UsageOrFalse ==
    (/\ last.op = "setDefaultDevice"
     /\ IsString(last.info, 0)
     /\ last.info.args[1].s = <<>>)
    => (last.usage \/ (last.outcome = "bool" /\ ~last.value))

\* C9: setDefaultDevice("") is never a usage error and never switches: it
\* returns false when the COM initialization and the enumeration succeed, and
\* raises the TypeError of the initialization or of the enumeration when one
\* fails
C9_EmptyIdFalseOrPlatformError ==
    (/\ last.op = "setDefaultDevice"
     /\ IsString(last.info, 0)
     /\ last.info.args[1].s = <<>>)
    => /\ ~last.usage
       /\ ~last.found
       /\ ~last.value
       /\ defaults = last.preDefaults
       /\ last.outcome = IF last.initOk /\ last.enumOk THEN "bool" ELSE "TypeError"
       /\ last.outcome = "TypeError"
          => last.what \in {"Failed to initialize COM.",
                            "[x] Failed to create device enumerator.",
                            "[x] Failed to enumerate audio endpoints.",
                            "[x] Failed to retrieve device count.",
                            "[x] No output devices found."}

C9_Witness ==
    /\ last.op = "setDefaultDevice"
    /\ IsString(last.info, 0)
    /\ last.info.args[1].s = <<>>
    /\ active = {}
    /\ last.outcome = "TypeError"
    /\ last.what = "[x] No output devices found."

(***************************************************************************)
(* Properties of the mute operations (SpecMute).                           *)
(***************************************************************************)
\* setDefaultPlaybackMute(true) returned true and the setDefaultPlaybackMute(false)
\* right after it, on the same default device, returned true
MuteRoundTrip ==
    /\ prev.op = "setDefaultPlaybackMute"
    /\ prev.mute
    /\ last.op = "setDefaultPlaybackMute"
    /\ ~last.mute
    /\ last.outcome = "bool"
    /\ last.value
    /\ last.target = prev.target

\* C7 as stated: the round trip leaves the device's mute flag as it was
\* before the first call, whatever it was
C7_RestoresOriginal == MuteRoundTrip => muted[last.target] = prev.preMuted

\* C7: the round trip leaves the device unmuted, after having muted it; the
\* flag equals its value before the first call only when the device was
\* unmuted then
C7_LeavesUnmuted ==
    MuteRoundTrip
    => /\ last.preMuted
       /\ ~muted[last.target]
       /\ (muted[last.target] = prev.preMuted) <=> ~prev.preMuted

C7_Witness == MuteRoundTrip /\ prev.preMuted /\ ~muted[last.target]

\* muteDeviceById was given the id of no endpoint the platform knows
UnknownIdMuted ==
    /\ last.op = "muteDeviceById"
    /\ ~last.usage
    /\ \A d \in Devices : WStringToUtf8(DevId(d)) # last.id

\* C8 as stated: muteDeviceById with the id of no device returns false,
\* raises nothing and changes no mute flag
C8_AlwaysFalse ==
    UnknownIdMuted => (last.outcome = "bool" /\ ~last.value /\ muted = last.preMuteFlags)

\* C8: muteDeviceById with the id of no device changes no mute flag; it
\* returns false when the COM initialization succeeds and raises an Error
\* when it fails
C8_FalseOrInitError ==
    UnknownIdMuted
    => /\ muted = last.preMuteFlags
       /\ ~last.value
       /\ last.outcome = IF last.initOk THEN "bool" ELSE "Error"

C8_Witness ==
    /\ UnknownIdMuted
    /\ last.outcome = "bool"
    /\ ~last.value
    /\ last.mute
    /\ \E d \in Devices : muted[d]
    /\ \E d \in Devices : ~muted[d]

(***************************************************************************)
(* Properties of the argument validation (SpecCalls).                      *)
(***************************************************************************)
\* the number of arguments the documented signature of an operation takes
Arity(op) ==
    IF op = "listDevices" THEN 0
    ELSE IF op = "muteDeviceById" THEN 2
    ELSE 1

\* the call does not have the documented argument count and types
WrongShape(r) ==
    \/ r.info.argc # Arity(r.op)
    \/ r.op = "setDefaultDevice" /\ ~IsString(r.info, 0)
    \/ r.op = "setDefaultPlaybackMute" /\ ~IsBoolean(r.info, 0)
    \/ r.op = "muteDeviceById" /\ (~IsString(r.info, 0) \/ ~IsBoolean(r.info, 1))

\* C10 as stated: every operation raises the usage error when called with
\* the wrong number or types of arguments, too many arguments included
C10_AllValidate ==
    (last.op # "none" /\ WrongShape(last))
    => (last.usage /\ last.outcome = "TypeError")

\* C10: setDefaultPlaybackMute and muteDeviceById raise the usage error for
\* exactly the calls of the wrong count or types; setDefaultDevice raises it
\* when its first argument is missing or not a string and accepts extra
\* arguments; listDevices never raises it; a usage error changes nothing
C10_ValidationPerOperation ==
    last.op # "none"
    => /\ last.usage
          <=> (/\ WrongShape(last)
               /\ last.op # "listDevices"
               /\ ~(last.op = "setDefaultDevice" /\ IsString(last.info, 0)))
       /\ last.usage
          => (/\ last.outcome = "TypeError"
              /\ defaults = last.preDefaults
              /\ muted = last.preMuteFlags)

C10_Witness ==
    /\ last.op = "setDefaultPlaybackMute"
    /\ last.info.argc = 2
    /\ IsBoolean(last.info, 0)
    /\ last.usage
    /\ last.outcome = "TypeError"

(***************************************************************************)
(* Properties of the raised errors (SpecErrors).                           *)
(***************************************************************************)
Raised == last.outcome \in {"TypeError", "Error"}

\* an error raised after the validation passed: a platform failure
PlatformRaised == Raised /\ ~last.usage

\* the kind of an operation's usage error; listDevices has none
UsageKindOf(op) == IF op = "listDevices" THEN "none" ELSE "TypeError"

\* C11 as stated: in every operation the kind raised for a platform failure
\* differs from the kind raised for a usage error
C11_KindsDistinct == PlatformRaised => last.outcome # UsageKindOf(last.op)

\* C11: a usage error is a TypeError in every operation that raises one; a
\* platform failure is raised as an Error by setDefaultPlaybackMute and
\* muteDeviceById and as a TypeError by listDevices and setDefaultDevice, so
\* the two kinds differ in the mute operations and coincide in
\* setDefaultDevice
C11_KindsPerOperation ==
    /\ last.usage => (last.outcome = "TypeError" /\ last.op # "listDevices")
    /\ PlatformRaised
       => last.outcome = IF last.op \in {"setDefaultPlaybackMute", "muteDeviceById"}
                         THEN "Error" ELSE "TypeError"

C11_Witness ==
    /\ PlatformRaised
    /\ last.op = "setDefaultDevice"
    /\ last.outcome = "TypeError"
    /\ last.what = "[x] No output devices found."

(***************************************************************************)
(* Properties of the isDefault flag (SpecSwitch).                          *)
(***************************************************************************)
\* the id listDevices reports for the endpoint that held the console role
\* when the call started
ConsoleIdAtQuery == WStringToUtf8(DevId(last.preDefaults["eConsole"]))

LoopReached ==
    /\ last.op = "listDevices"
    /\ last.initOk
    /\ last.enumFault.stage = "none"
    /\ active # {}

\* the position of an active endpoint in the platform's collection
PositionOf(d) == CHOOSE i \in DOMAIN Collection : Collection[i] = d

C15_ZeroDevicesRaises ==
    (/\ last.op = "listDevices"
     /\ last.initOk
     /\ (active = {} \/ last.enumFault.stage # "none"))
    => /\ last.outcome = "TypeError"
       /\ last.list = <<>>
       /\ last.what
          = IF last.enumFault.stage = "create"
            THEN "[x] Failed to create device enumerator."
            ELSE IF last.enumFault.stage = "enum"
            THEN "[x] Failed to enumerate audio endpoints."
            ELSE IF last.enumFault.stage = "count"
            THEN "[x] Failed to retrieve device count."
            ELSE "[x] No output devices found."

C15_Witness ==
    /\ last.op = "listDevices"
    /\ last.initOk
    /\ active = {}
    /\ last.enumFault.stage = "none"
    /\ last.outcome = "TypeError"
    /\ last.what = "[x] No output devices found."

InitFailed == last.op # "none" /\ ~last.usage /\ ~last.initOk

ListedTwice == prev.op = "listDevices" /\ ListReturned

Pairs(list) == [i \in DOMAIN list |-> <<list[i].name, list[i].id>>]

PairSet(list) == {Pairs(list)[i] : i \in DOMAIN list}

\* the (name, id) pair listDevices reports for an endpoint
PairOf(d) == <<WStringToUtf8(DevName(d)), WStringToUtf8(DevId(d))>>

SwitchedTwice ==
    /\ prev.op = "setDefaultDevice"
    /\ last.op = "setDefaultDevice"
    /\ ~last.usage
    /\ last.id = prev.id
    /\ last.initOk

\* C19: the second call also returns true and leaves the three role
\* assignments as the first call set them
C19_Idempotent ==
    SwitchedTwice
    => /\ last.outcome = "bool"
       /\ last.value
       /\ last.target = prev.target
       /\ defaults = last.preDefaults
       /\ \A r \in RoleSet : defaults[r] = prev.target

C19_Witness ==
    /\ SwitchedTwice
    /\ last.outcome = "bool"
    /\ last.value
    /\ last.calls = Roles
    /\ defaults = last.preDefaults

Positions(trace, e, kind, n) ==
    {i \in DOMAIN trace : trace[i] = Ev(e, kind, n)}

HandlesOf(trace) ==
    {<<trace[i].kind, trace[i].n>> : i \in {j \in DOMAIN trace :
                                            trace[j].e \in {"acquire", "release"}}}

ReleasedExactlyOnce(trace, h) ==
    /\ Cardinality(Positions(trace, "acquire", h[1], h[2])) = 1
    /\ Cardinality(Positions(trace, "release", h[1], h[2])) = 1
    /\ \A a \in Positions(trace, "acquire", h[1], h[2]) :
        \A r \in Positions(trace, "release", h[1], h[2]) : a < r

C21_EveryHandleReleasedOnce ==
    ~Idle => \A h \in HandlesOf(last.trace) : ReleasedExactlyOnce(last.trace, h)

\* a listing that kept one record and dropped an endpoint after its handle
\* was acquired, with every handle kind of the listing in its trace
C21_Witness ==
    /\ ListReturned
    /\ Len(last.list) >= 1
    /\ \E d \in active : last.enumFault.dev[d] \in {"id", "store", "name"}
    /\ {"enumerator", "collection", "device", "store", "defaultDevice"}
           \subseteq {h[1] : h \in HandlesOf(last.trace)}

(***************************************************************************)
(* C22: after any sequence of guard constructions, move-constructions,     *)
(* move-assignments (self-assignment included) and destructions, the       *)
(* CoUninitialize calls made never exceed the successful CoInitializeEx    *)
(* calls, equal them once every guard is destroyed, and the destruction of *)
(* a moved-from guard makes no CoUninitialize call.                        *)
(***************************************************************************)
AllGuardsDestroyed == \A g \in GuardSlots : ~guards.obj[g].live

C22_UninitMatchesInit ==
    /\ guards.uninits <= guards.inits
    /\ AllGuardsDestroyed => guards.uninits = guards.inits
    /\ (guards.op.op = "destroy" /\ guards.op.movedFrom) => guards.op.uninit = 0

\* two guards were initialised, every guard has been destroyed, and the
\* last one destroyed was a moved-from guard
C22_Witness ==
    /\ AllGuardsDestroyed
    /\ guards.inits >= 2
    /\ guards.uninits = guards.inits
    /\ guards.op.op = "destroy"
    /\ guards.op.movedFrom

(***************************************************************************)
(* C24: no endpoint reference is held by two live records at once; after a *)
(* move-construction or a move-assignment the source holds none; a         *)
(* move-assignment has released the reference its target held before,      *)
(* once; and a reference stored in a record is released exactly once, when *)
(* the record that owns it is destroyed or overwritten, never while a      *)
(* record still holds it.                                                  *)
(***************************************************************************)
Owners(h) == {r \in RecordSlots : records.obj[r].live /\ records.obj[r].device = h}

C24_NoSharedHandle ==
    /\ \A h \in Handles : Cardinality(Owners(h)) <= 1
    /\ records.op.op \in {"moveConstruct", "moveAssign"}
           => records.obj[records.op.source].device = NoDevice
    /\ (records.op.op = "moveAssign" /\ records.op.prior # NoDevice)
           => records.released[records.op.prior] = 1
    /\ \A h \in records.acquired :
           records.released[h] = IF Owners(h) = {} THEN 1 ELSE 0

\* a record holding a reference was assigned another record's reference:
\* the old one is released, the new one has moved, the source is empty
C24_Witness ==
    /\ records.op.op = "moveAssign"
    /\ records.op.prior # NoDevice
    /\ records.obj[records.op.target].device \notin {NoDevice, records.op.prior}
    /\ records.obj[records.op.source].live

(***************************************************************************)
(* C23: every operation that passes its argument validation constructs its *)
(* own guard inside the call, as its first platform call; when that        *)
(* initialisation succeeds, every other platform call of the operation,    *)
(* every handle release included, comes after it and before the one        *)
(* CoUninitialize of the guard, which is the operation's last platform     *)
(* call before it returns; when it fails, the operation makes no other     *)
(* platform call.  A call rejected by validation makes no platform call.   *)
(***************************************************************************)
PlatformCalls(trace) == SelectSeq(trace, LAMBDA ev : ev.e # "result")

C23_CallsInsideGuard ==
    ~Idle =>
        LET calls == PlatformCalls(last.trace)
        IN  /\ last.usage => calls = <<>>
            /\ ~last.usage =>
                /\ calls # <<>>
                /\ calls[1] = Ev("CoInitializeEx", "apartment", 0)
                /\ \A i \in 2..Len(calls) : calls[i].e # "CoInitializeEx"
                /\ ~last.initOk => Len(calls) = 1
                /\ last.initOk =>
                    /\ Len(calls) >= 2
                    /\ calls[Len(calls)] = Ev("CoUninitialize", "apartment", 0)
                    /\ \A i \in 1..(Len(calls) - 1) : calls[i].e # "CoUninitialize"

\* a switch that found its id: the listing's handles, the policy object and
\* the records' handles are all released inside the guard
C23_Witness ==
    /\ SwitchCalled
    /\ last.initOk
    /\ last.found
    /\ last.policy
    /\ \E i \in DOMAIN last.trace : last.trace[i] = Ev("release", "policy", 0)
    /\ \E i \in DOMAIN last.trace : last.trace[i].e = "release" /\ last.trace[i].kind = "device"
    /\ last.trace[Len(last.trace)] = Ev("CoUninitialize", "apartment", 0)

(***************************************************************************)
(* C25: in muteDeviceById the enumerator is released right after the by-id *)
(* lookup, with no platform call in between, and before the volume control *)
(* is activated; the device is released before the result value is built;  *)
(* neither release is left to the end of the function.                     *)
(***************************************************************************)
Pos(trace, ev) == CHOOSE i \in DOMAIN trace : trace[i] = ev

Has(trace, ev) == \E i \in DOMAIN trace : trace[i] = ev

C25_PromptRelease ==
    (last.op = "muteDeviceById" /\ ~last.usage) =>
        LET t == last.trace
            calls == SelectSeq(t, LAMBDA ev : ev.e \in {"call", "release"})
            lookup == Ev("call", "GetDevice", LookupSite)
            relEnum == Ev("release", "enumerator", LookupSite)
            exit == Ev("CoUninitialize", "apartment", 0)
        IN  /\ Has(t, Ev("acquire", "enumerator", LookupSite)) =>
                /\ Has(calls, lookup) /\ Has(calls, relEnum)
                /\ Pos(calls, relEnum) = Pos(calls, lookup) + 1
                /\ \A i \in DOMAIN t : (t[i].e = "call" /\ t[i].kind = "Activate")
                       => Pos(t, relEnum) < i
                /\ Pos(t, relEnum) < Pos(t, Result[1])
            /\ \A d \in Devices : Has(t, Ev("acquire", "lookedUpDevice", d)) =>
                /\ Has(t, Ev("release", "lookedUpDevice", d))
                /\ Pos(t, Ev("release", "lookedUpDevice", d)) < Pos(t, Result[1])
                /\ Pos(t, Ev("release", "lookedUpDevice", d)) < Pos(t, exit)

\* a mute by id that resolved its device and set the flag
C25_Witness ==
    /\ last.op = "muteDeviceById"
    /\ last.outcome = "bool"
    /\ last.value
    /\ Has(last.trace, Ev("call", "SetMute", last.target))
    /\ Has(last.trace, Ev("release", "lookedUpDevice", last.target))

(***************************************************************************)
(* C26: when setDefaultDevice has enumerated the endpoints and its id is   *)
(* not the id of any record of that enumeration, it does not call          *)
(* setDefaultOutputDevice: no policy object is created, no role assignment *)
(* is issued, and the console, multimedia and communications defaults are  *)
(* what they were before the call.                                         *)
(***************************************************************************)
MembershipCheckFailed == SwitchCalled /\ last.enumOk /\ ~InOwnEnumeration

C26_FailedCheckChangesNothing ==
    MembershipCheckFailed =>
        /\ "policy" \notin last.apis
        /\ ~last.policy
        /\ last.calls = <<>>
        /\ \A r \in RoleSet : defaults[r] = last.preDefaults[r]

\* the id of an active endpoint that this call's enumeration skipped, while
\* it kept another one
C26_Witness ==
    /\ MembershipCheckFailed
    /\ last.enumerated # <<>>
    /\ \E d \in active : last.id = WStringToUtf8(DevId(d)) /\ WidenBytes(last.id) = DevId(d)

(***************************************************************************)
(* C27: a mute operation that returns true has set the mute flag of its    *)
(* target, the console default at call time for setDefaultPlaybackMute and *)
(* the endpoint with the given id for muteDeviceById, to the requested     *)
(* value, and has left every other endpoint's flag and the three role      *)
(* defaults as they were; a mute operation that returns false or raises    *)
(* has changed no flag; setDefaultDevice and listDevices change no flag.   *)
(***************************************************************************)
MuteOps == {"setDefaultPlaybackMute", "muteDeviceById"}

MuteReturnedTrue == last.op \in MuteOps /\ last.outcome = "bool" /\ last.value

TargetOf(r) ==
    IF r.op = "setDefaultPlaybackMute" THEN r.preDefaults["eConsole"]
    ELSE DeviceWithId(WidenBytes(r.id))

C27_MuteFrame ==
    /\ MuteReturnedTrue =>
        /\ last.target = TargetOf(last)
        /\ last.target \in Devices
        /\ muted[last.target] = last.mute
        /\ \A d \in Devices \ {last.target} : muted[d] = last.preMuteFlags[d]
        /\ \A r \in RoleSet : defaults[r] = last.preDefaults[r]
    /\ (last.op \in MuteOps /\ ~MuteReturnedTrue) => muted = last.preMuteFlags
    /\ last.op \in {"setDefaultDevice", "listDevices"} => muted = last.preMuteFlags

\* a mute by id that changed its target's flag while another endpoint keeps
\* the opposite flag
C27_Witness ==
    /\ MuteReturnedTrue
    /\ last.op = "muteDeviceById"
    /\ last.preMuteFlags[last.target] # last.mute
    /\ \E d \in Devices \ {last.target} : muted[d] # muted[last.target]

(***************************************************************************)
(* C28: an id that listDevices has just returned, passed back unchanged to *)
(* setDefaultDevice or muteDeviceById, is converted to the wide string the *)
(* platform reported for that endpoint, whatever characters it contains,   *)
(* so that it names the same endpoint again.                               *)
(***************************************************************************)
PassedBack ==
    /\ prev.op = "listDevices"
    /\ last.op \in {"setDefaultDevice", "muteDeviceById"}
    /\ ~last.usage
    /\ last.id \in ListIds(prev.list)

C28_IdRoundTrip ==
    PassedBack =>
        \E d \in active : /\ WStringToUtf8(DevId(d)) = last.id
                          /\ WidenBytes(last.id) = DevId(d)
                          /\ DeviceWithId(WidenBytes(last.id)) = d

AllSkipped == \A d \in active : last.enumFault.dev[d] # "ok"

ListingReturned == threads.lister.pc = "done" /\ ~threads.lister.raised

C30_FlagsFromOneRead ==
    ListingReturned =>
        LET list == threads.lister.list
        IN  /\ \A k \in DOMAIN list :
                   list[k].isDefault <=> list[k].id = threads.lister.defaultIdUtf8
            /\ Cardinality(Flagged(list)) <= 1
            /\ \A k \in Flagged(list) :
                   \E d \in threads.seen : list[k].id = WStringToUtf8(DevId(d))

\* the listing flags an endpoint that is no longer the console default when
\* it returns: the other thread switched while it ran
C30_Witness ==
    /\ ListingReturned
    /\ Cardinality(threads.seen) >= 2
    /\ \E k \in Flagged(threads.lister.list) :
           threads.lister.list[k].id # WStringToUtf8(DevId(defaults["eConsole"]))

====
